---- MODULE Spec2Model ----
(***************************************************************************)
(* The staking ledger of anchor-nft-staking as a state machine: the global *)
(* configuration, the per-holder accounts, the per-asset stake records,    *)
(* the custody state of each asset in the asset registry, and the four     *)
(* instructions (configure, stake, unstake, claim).  Every instruction is  *)
(* one atomic transition; a failed one changes nothing but `last`, the     *)
(* outcome the caller observes.                                            *)
(*                                                                         *)
(* Machine integers are little-endian sequences of bytes of the field's    *)
(* width (i64: 8 bytes, u32: 4 bytes), so that the arithmetic of unstake   *)
(* is carried out at the width the code uses; u8 fields are plain numbers. *)
(***************************************************************************)
EXTENDS Integers, Sequences, FiniteSets, TLC

\* ------------------------------------------------------------ byte arithmetic

RECURSIVE ToBytes(_, _)
\* The w-byte little-endian representation of n (0 <= n < 2^31).
ToBytes(n, w) == IF w = 0 THEN <<>> ELSE <<n % 256>> \o ToBytes(n \div 256, w - 1)

RECURSIVE Zeros(_)
Zeros(w) == IF w = 0 THEN <<>> ELSE <<0>> \o Zeros(w - 1)

\* Zero-extension of an unsigned value to w bytes (u32 as i64, u8 as u32).
Extend(b, w) == b \o Zeros(w - Len(b))

RECURSIVE Val(_)
\* The number a byte sequence stands for (for values below 2^31).
Val(b) == IF b = <<>> \/ (\A i \in 1..Len(b) : b[i] = 0) THEN 0 ELSE Head(b) + 256 * Val(Tail(b))

RECURSIVE AddCarry(_, _, _)
\* a + b + c over Len(a) bytes, followed by the carry out.
AddCarry(a, b, c) ==
    IF a = <<>> THEN <<c>>
    ELSE LET s == Head(a) + Head(b) + c
         IN  <<s % 256>> \o AddCarry(Tail(a), Tail(b), s \div 256)

RECURSIVE SubBorrow(_, _, _)
\* a - b - c over Len(a) bytes, followed by the borrow out (1 when a < b + c).
SubBorrow(a, b, c) ==
    IF a = <<>> THEN <<c>>
    ELSE LET s == Head(a) - Head(b) - c
         IN  IF s < 0 THEN <<s + 256>> \o SubBorrow(Tail(a), Tail(b), 1)
                      ELSE <<s>> \o SubBorrow(Tail(a), Tail(b), 0)

RECURSIVE MulCarry(_, _, _)
\* a * m + c over Len(a) bytes (m a small number), followed by the carry out.
MulCarry(a, m, c) ==
    IF a = <<>> THEN <<c>>
    ELSE LET p == Head(a) * m + c
         IN  <<p % 256>> \o MulCarry(Tail(a), m, p \div 256)

RECURSIVE DivRem(_, _)
\* Long division of a by the small number d: quotient (Len(a) bytes) and remainder.
DivRem(a, d) ==
    IF a = <<>> THEN [q |-> <<>>, r |-> 0]
    ELSE LET hi  == DivRem(Tail(a), d)
             cur == hi.r * 256 + Head(a)
         IN  [q |-> <<cur \div d>> \o hi.q, r |-> cur % d]

Low(r, w) == SubSeq(r, 1, w)
Out(r) == r[Len(r)]

\* a >= b for two values of the same width.
Ge(a, b) == Out(SubBorrow(a, b, 0)) = 0

\* Exact (unbounded) arithmetic, used to state what a result should be:
\* the operands are widened so that no carry is lost.
WideAdd(a, b) == Low(AddCarry(Extend(a, 12), Extend(b, 12), 0), 12)
WideMul(a, m) == Low(MulCarry(Extend(a, 12), m, 0), 12)
Wide(a) == Extend(a, 12)

\* ------------------------------------------------------------------ constants

\* constants.rs: pub const SECONDS_PER_DAY: i64 = 86400
SECONDS_PER_DAY == 86400

\* Widths of the fields, in bytes.
I64 == 8
U32 == 4

\* ---------------------------------------------------------------- model bounds

\* How many of the clock readings of Instants the clock may take.
MaxClock == 4

\* The number of clock readings taken where assets also change hands.
MovingClock == 2

Holders == {"h1", "h2"}
Assets == {"a1", "a2"}

\* A day count d with d * 255 > 2^32 - 1 and 2 * d * 10 > 2^32 - 1 >= d * 10.
ManyDays == 214748365

\* The i64 timestamp of `days` whole days plus `secs` seconds.
Timestamp(days, secs) ==
    Low(AddCarry(Low(MulCarry(days, SECONDS_PER_DAY, 0), I64), ToBytes(secs, I64), 0), I64)

\* A day count past 32 bits: 2^32 + ManyDays.
DaysPast32Bits == Low(ToBytes(ManyDays, U32) \o <<1, 0, 0, 0>>, I64)

\* Clock readings (unix_timestamp), in the order the bound admits them: the
\* start, one day later, ManyDays days later, and 2^32 days and 7 seconds
\* after that; then two more small readings.
Instants ==
    << ToBytes(0, I64),
       ToBytes(86400, I64),
       Timestamp(ToBytes(ManyDays, I64), 0),
       Timestamp(DaysPast32Bits, 7),
       ToBytes(86401, I64),
       ToBytes(86399, I64) >>

ClockReadings == {Instants[i] : i \in 1..MaxClock}

\* Arguments offered to configure.
ConfigArgs ==
    { <<10, 3, 86400>>, <<255, 1, 86401>>,
      <<0, 3, 86400>>, <<10, 0, 86400>>, <<10, 3, 0>>, <<0, 0, 0>> }

\* ---------------------------------------------------------------------- state

VARIABLES
    config,          \* GlobalConfiguration (StakeConfig), or NoConfig
    rewardsMint,     \* whether the reward mint exists
    users,           \* HolderAccount (User) of each holder
    stakes,          \* StakeRecord (StakeAccount) of each asset
    registry,        \* asset registry: holder, frozen flag and delegate of each asset
    balance,         \* reward balance minted to each holder
    now,             \* Clock::get()?.unix_timestamp
    last             \* the last transaction and its outcome

vars == <<config, rewardsMint, users, stakes, registry, balance, now, last>>

NoConfig == [exists |-> FALSE, points_per_stake |-> 0, max_stake |-> 0, freeze_period |-> Zeros(U32)]
NoUser == [exists |-> FALSE, amount_staked |-> 0, points |-> Zeros(U32)]
NoStake == [exists |-> FALSE, owner |-> "none", last_update |-> Zeros(I64)]

Tx(op, user, asset, args, result) ==
    [op |-> op, user |-> user, asset |-> asset, args |-> args, result |-> result]

Init ==
    /\ config = NoConfig
    /\ rewardsMint = FALSE
    /\ users = [h \in Holders |-> NoUser]
    /\ stakes = [a \in Assets |-> NoStake]
    /\ registry = [a \in Assets |->
                     [holder |-> "h1", frozen |-> FALSE, delegate |-> "none"]]
    /\ balance = [h \in Holders |-> Zeros(I64)]
    /\ now = Instants[1]
    /\ last = Tx("none", "none", "none", <<>>, "none")

\* ---------------------------------------------------------------------- clock

\* The ledger clock moves forward to a later reading.
Tick ==
    /\ \E t \in ClockReadings :
         /\ t # now
         /\ Ge(t, now)
         /\ now' = t
    /\ last' = Tx("tick", "none", "none", <<>>, "none")
    /\ UNCHANGED <<config, rewardsMint, users, stakes, registry, balance>>

\* ------------------------------------------------------------------ configure

\* Faulty variant: the freeze period is not validated.
ValidConfiguration_NoFreezeCheck(points_per_stake, max_stake, freeze_period) ==
    points_per_stake > 0 /\ max_stake > 0

\* require!(points_per_stake > 0 && max_stake > 0 && freeze_period > 0, ...)
ValidConfiguration(points_per_stake, max_stake, freeze_period) ==
    points_per_stake > 0 /\ max_stake > 0 /\ freeze_period > 0

\* Faulty variant: the accounts are (re)initialized whether or not they exist.
ConfigSlotFree_InitIfNeeded == TRUE

\* #[account(init, ..., seeds = [b"config"], bump)]: the slot must be unused.
ConfigSlotFree == ~config.exists /\ ~rewardsMint

InitializeConfigOutcome(points_per_stake, max_stake, freeze_period) ==
    IF ~ConfigSlotFree THEN "AccountAlreadyInUse"
    ELSE IF ~ValidConfiguration(points_per_stake, max_stake, freeze_period) THEN "InvalidConfiguration"
    ELSE "Ok"

InitializeConfig ==
    \E args \in ConfigArgs :
        LET p == args[1]
            m == args[2]
            f == args[3]
            res == InitializeConfigOutcome(p, m, f) IN
        \* the arguments reach the handler only when the accounts were created
        /\ last' = Tx("configure", "admin", "none",
                      IF res = "AccountAlreadyInUse" THEN <<>> ELSE <<p, m, f>>, res)
        /\ IF res = "Ok"
           THEN /\ config' = [exists |-> TRUE, points_per_stake |-> p, max_stake |-> m,
                              freeze_period |-> ToBytes(f, U32)]
                /\ rewardsMint' = TRUE
           ELSE UNCHANGED <<config, rewardsMint>>
        /\ UNCHANGED <<users, stakes, registry, balance, now>>

\* ------------------------------------------------------------ holder accounts

\* The explicit initialize step that creates a HolderAccount.
InitializeUser ==
    \E h \in Holders :
        /\ IF users[h].exists
           THEN /\ last' = Tx("initialize", h, "none", <<>>, "AccountAlreadyInUse")
                /\ UNCHANGED users
           ELSE /\ last' = Tx("initialize", h, "none", <<>>, "Ok")
                /\ users' = [users EXCEPT ![h] = [NoUser EXCEPT !.exists = TRUE]]
        /\ UNCHANGED <<config, rewardsMint, stakes, registry, balance, now>>

\* ---------------------------------------------------------------------- stake

\* Faulty variant: the record is (re)created whether or not it exists.
StakeSlotFree_InitIfNeeded(a) == TRUE

\* The StakeRecord's slot (asset identity, configuration identity) is unused.
StakeSlotFree(a) == ~stakes[a].exists

\* The registry's answer about the asset a requester presents: ownership and
\* collection proof, when the accounts resolve and it is asked.  Only the
\* registered holder can obtain "Ok".
StakeAnswers(h, a) ==
    IF ~config.exists \/ ~StakeSlotFree(a) THEN {"NotAsked"}
    ELSE IF registry[a].holder = h
    THEN {"Ok", "IncorrectCollection", "CollectionNotVerified"}
    ELSE {"IncorrectMint"}

\* Faulty variant: the ceiling is compared with <=.
BelowMaxStake_OffByOne(h) == users[h].amount_staked <= config.max_stake

\* amountStaked < maxStake
BelowMaxStake(h) == users[h].amount_staked < config.max_stake

StakeOutcome(h, a, answer) ==
    IF ~config.exists THEN "AccountNotInitialized"
    ELSE IF ~StakeSlotFree(a) THEN "AccountAlreadyInUse"
    ELSE IF answer # "Ok" THEN answer
    ELSE IF ~BelowMaxStake(h) THEN "MaxStakeReached"
    ELSE "Ok"

Stake ==
    \E h \in Holders, a \in Assets :
      \E answer \in StakeAnswers(h, a) :
        LET res == StakeOutcome(h, a, answer) IN
        /\ last' = Tx("stake", h, a, <<answer>>, res)
        /\ IF res = "Ok"
           THEN /\ registry' = [registry EXCEPT ![a].frozen = TRUE, ![a].delegate = "ledger"]
                /\ stakes' = [stakes EXCEPT ![a] = [exists |-> TRUE, owner |-> h, last_update |-> now]]
                /\ users' = [users EXCEPT ![h].exists = TRUE,
                                          ![h].amount_staked = users[h].amount_staked + 1]
           ELSE UNCHANGED <<registry, stakes, users>>
        /\ UNCHANGED <<config, rewardsMint, balance, now>>

\* -------------------------------------------------------------------- unstake

\* let time_elapsed = current_time - self.stake_account.last_update
TimeElapsed(a) == Low(SubBorrow(now, stakes[a].last_update, 0), I64)

\* Faulty variant: the period must be exceeded, not reached.
FreezePeriodMet_Strict(a) == ~Ge(Extend(config.freeze_period, I64), TimeElapsed(a))

\* Faulty variant: the current time, not the elapsed time, is compared with the period.
FreezePeriodMet_NoSubtraction(a) == Ge(now, Extend(config.freeze_period, I64))

\* time_elapsed >= self.config.freeze_period as i64
FreezePeriodMet(a) == Ge(TimeElapsed(a), Extend(config.freeze_period, I64))

\* Faulty variant: the ownership check is missing.
IsOwner_Unchecked(h, a) == TRUE

\* self.stake_account.owner == self.user.key()
IsOwner(h, a) == stakes[a].owner = h

\* let days_staked = time_staked / SECONDS_PER_DAY
DaysStaked(a) == DivRem(TimeElapsed(a), SECONDS_PER_DAY).q

\* days_staked as u32: the low 32 bits
AsU32(x) == Low(x, U32)

\* (days_staked as u32) * (points_per_stake as u32): the u32 product, then its carry out
PointsEarned(a) == MulCarry(AsU32(DaysStaked(a)), config.points_per_stake, 0)

\* self.user_account.points += points_earned: the u32 sum, then its carry out
PointsSum(h, a) == AddCarry(users[h].points, Low(PointsEarned(a), U32), 0)

\* Faulty variant: the count is left as it was.
DecAmountStaked_Skipped(n) == n

\* Faulty variant: the count is incremented.
DecAmountStaked_Increment(n) == (n + 1) % 256

\* self.user_account.amount_staked -= 1 on a u8, as a build that does not trap computes it
DecAmountStaked(n) == (n + 256 - 1) % 256

\* The arithmetic of lines 119-126 leaves its field's width.
ArithmeticOverflows(h, a) ==
    \/ users[h].amount_staked < 1
    \/ Out(PointsEarned(a)) # 0
    \/ Out(PointsSum(h, a)) # 0

\* The accounts of UnStake resolve: config, stake_account and user_account are
\* initialized accounts of their types and mint_ata is the requester's token
\* account for the mint.
UnstakeAccountsResolve(h, a, ata) ==
    config.exists /\ stakes[a].exists /\ users[h].exists /\ ata

\* ThawDelegatedAccountCpi on the requester's token account, signed by the
\* stake record's derived address; the registry may also refuse (cpi).
ThawSucceeds(h, a, cpi) ==
    /\ cpi # "ThawFailed"
    /\ registry[a].holder = h /\ registry[a].frozen /\ registry[a].delegate = "ledger"

\* revoke(cpi_ctx)?
RevokeSucceeds(cpi) == cpi # "RevokeFailed"

\* The checks of lines 73-85 pass, so that the registry is asked.
ChecksPass(h, a, ata) ==
    UnstakeAccountsResolve(h, a, ata) /\ FreezePeriodMet(a) /\ IsOwner(h, a)

\* What the registry answers to the thaw and revoke requests, when asked.
CpiAnswers(h, a, ata) ==
    IF ChecksPass(h, a, ata) THEN {"Ok", "ThawFailed", "RevokeFailed"} ELSE {"NotAsked"}

\* The build either traps an overflowing operation (the program panics and the
\* transaction is discarded) or lets it wrap.
OverflowModes(h, a, ata, cpi) ==
    IF ChecksPass(h, a, ata) /\ cpi = "Ok" /\ ArithmeticOverflows(h, a)
    THEN {"trap", "wrap"} ELSE {"none"}

\* Faulty variant: ownership is verified before the freeze period.
UnstakeOutcome_OwnerFirst(h, a, ata, cpi, mode) ==
    IF ~UnstakeAccountsResolve(h, a, ata) THEN "AccountNotInitialized"
    ELSE IF ~IsOwner(h, a) THEN "Unauthorized"
    ELSE IF ~FreezePeriodMet(a) THEN "UnstakeDelayNotMet"
    ELSE IF ~ThawSucceeds(h, a, cpi) THEN "ThawFailed"
    ELSE IF ~RevokeSucceeds(cpi) THEN "RevokeFailed"
    ELSE IF mode = "trap" THEN "ProgramPanic"
    ELSE "Ok"

\* The handler's order: accounts, freeze period (lines 74-79), ownership
\* (lines 82-85), thaw, revoke, account arithmetic.
UnstakeOutcome(h, a, ata, cpi, mode) ==
    IF ~UnstakeAccountsResolve(h, a, ata) THEN "AccountNotInitialized"
    ELSE IF ~FreezePeriodMet(a) THEN "UnstakeDelayNotMet"
    ELSE IF ~IsOwner(h, a) THEN "Unauthorized"
    ELSE IF ~ThawSucceeds(h, a, cpi) THEN "ThawFailed"
    ELSE IF ~RevokeSucceeds(cpi) THEN "RevokeFailed"
    ELSE IF mode = "trap" THEN "ProgramPanic"
    ELSE "Ok"

\* Faulty variant: the registry is asked to thaw before the checks are made.
UnstakeCalls_ThawUnconditional(h, a, ata, cpi) ==
    IF ~ChecksPass(h, a, ata) \/ ~ThawSucceeds(h, a, cpi) THEN <<"thaw">>
    ELSE <<"thaw", "revoke">>

\* The requests the handler makes of the registry, in order: none when an
\* account constraint or a require! stops it, the thaw of lines 102-108, and
\* the revoke of lines 111-117 when the thaw returned Ok(()).
UnstakeCalls(h, a, ata, cpi) ==
    IF ~ChecksPass(h, a, ata) THEN <<>>
    ELSE IF ~ThawSucceeds(h, a, cpi) THEN <<"thaw">>
    ELSE <<"thaw", "revoke">>

\* Faulty variant: the delegate is not revoked.
Released_NoRevoke(a) == [registry EXCEPT ![a].frozen = FALSE]

\* The registry after the thaw and the revoke: the token account is thawed
\* and has no delegate.
Released(a) == [registry EXCEPT ![a].frozen = FALSE, ![a].delegate = "none"]

\* Faulty variant: the stake record survives the unstake.
Closed_Kept(a) == stakes

\* close = user: the stake record is destroyed when the handler returns Ok(()).
Closed(a) == [stakes EXCEPT ![a] = NoStake]

\* Faulty variant: the user account is not bound to the signer.
UserAccountOf_Unbound(h) == CHOOSE g \in Holders : g # h

\* seeds = [b"user", user.key()]: the user account the handler updates is the
\* signer's.
UserAccountOf(h) == h

\* The requester's token account for the asset exists when the requester
\* holds the asset; otherwise it may or may not have been created.
TokenAccountStates(h, a) == IF registry[a].holder = h THEN {TRUE} ELSE BOOLEAN

UnStake ==
    \E h \in Holders, a \in Assets :
      \E ata \in TokenAccountStates(h, a) :
      \E cpi \in CpiAnswers(h, a, ata) :
      \E mode \in OverflowModes(h, a, ata, cpi) :
        LET res == UnstakeOutcome(h, a, ata, cpi, mode)
            u == UserAccountOf(h) IN
        /\ last' = Tx("unstake", h, a, <<ata, UnstakeCalls(h, a, ata, cpi)>>, res)
        /\ IF res = "Ok"
           THEN /\ registry' = Released(a)
                /\ users' = [users EXCEPT
                               ![u].amount_staked = DecAmountStaked(users[u].amount_staked),
                               ![u].points = Low(PointsSum(u, a), U32)]
                /\ stakes' = Closed(a)
           ELSE UNCHANGED <<registry, users, stakes>>
        /\ UNCHANGED <<config, rewardsMint, balance, now>>

\* ---------------------------------------------------------------------- claim

\* Faulty variant: an empty points balance is not refused.
ClaimOutcome_NoZeroCheck(h, mint) ==
    IF ~(config.exists /\ users[h].exists) THEN "AccountNotInitialized"
    ELSE IF ~mint THEN "MintFailed"
    ELSE "Ok"

ClaimOutcome(h, mint) ==
    IF ~(config.exists /\ users[h].exists) THEN "AccountNotInitialized"
    ELSE IF users[h].points = Zeros(U32) THEN "NoPointsToClaim"
    ELSE IF ~mint THEN "MintFailed"
    ELSE "Ok"

Claim ==
    \E h \in Holders, mint \in BOOLEAN :
        LET res == ClaimOutcome(h, mint) IN
        /\ last' = Tx("claim", h, "none", <<>>, res)
        /\ IF res = "Ok"
           THEN /\ balance' = [balance EXCEPT
                                 ![h] = Low(AddCarry(balance[h], Extend(users[h].points, I64), 0), I64)]
                /\ users' = [users EXCEPT ![h].points = Zeros(U32)]
           ELSE UNCHANGED <<balance, users>>
        /\ UNCHANGED <<config, rewardsMint, stakes, registry, now>>

\* ----------------------------------------------------------------- the system

Next ==
    \/ Tick
    \/ InitializeConfig
    \/ InitializeUser
    \/ Stake
    \/ UnStake
    \/ Claim

Spec == Init /\ [][Next]_vars

\* ------------------------------------------------- the system, with two stakers

\* The registry's answer to a holder's request to move an asset to another
\* holder: a frozen token account cannot be debited.
TransferOutcome(h, a) ==
    IF registry[a].holder # h THEN "OwnerMismatch"
    ELSE IF registry[a].frozen THEN "AccountFrozen"
    ELSE "Ok"

\* A holder asks the registry to move an asset to another holder.
Transfer ==
    \E h \in Holders, a \in Assets, to \in Holders :
        LET res == TransferOutcome(h, a) IN
        /\ to # h
        /\ last' = Tx("transfer", h, a, <<to>>, res)
        /\ registry' = IF res = "Ok" THEN [registry EXCEPT ![a].holder = to] ELSE registry
        /\ UNCHANGED <<config, rewardsMint, users, stakes, balance, now>>

\* The clock readings taken there: around the first day.
MovingReadings ==
    {<<Instants[1], Instants[2], Instants[5], Instants[6]>>[i] : i \in 1..MovingClock}

\* The ledger clock moves forward to a later one of these readings.
TickEarly ==
    /\ \E t \in MovingReadings :
         /\ t # now
         /\ Ge(t, now)
         /\ now' = t
    /\ last' = Tx("tick", "none", "none", <<>>, "none")
    /\ UNCHANGED <<config, rewardsMint, users, stakes, registry, balance>>

NextMoving ==
    \/ TickEarly
    \/ InitializeConfig
    \/ InitializeUser
    \/ Stake
    \/ UnStake
    \/ Claim
    \/ Transfer

\* Assets change hands between stakes, so that both holders stake.
SpecMoving == Init /\ [][NextMoving]_vars

\* ------------------------------------------------------------ reading `last`

\* The step is the transaction `op` submitted by h about asset a.
Submitted(op, h, a) == last'.op = op /\ last'.user = h /\ last'.asset = a

\* The records and the custody state are what they were.
NothingMutated == UNCHANGED <<config, rewardsMint, users, stakes, registry, balance>>

\* now - lastUpdate of the record of a, and whether it has reached
\* freezePeriodSeconds.
Elapsed(a) == Low(SubBorrow(now, stakes[a].last_update, 0), I64)
Matured(a) == Ge(Elapsed(a), Extend(config.freeze_period, I64))

\* ------------------------------------------------------------------------ C1

\* C1: once the freeze period of a staked asset has elapsed, an unstake by a
\* requester who is not the record's owner is rejected with Unauthorized (the
\* error of every such request whose accounts resolve, so that the handler
\* runs), the asset stays frozen and delegated, and the record, amountStaked
\* and points are unchanged; and a record only ever disappears by a successful
\* unstake of its owner.
C1_OnlyStakerUnstakes ==
    [][ \A h \in Holders, a \in Assets :
          /\ ( /\ Submitted("unstake", h, a)
               /\ stakes[a].exists /\ Matured(a) /\ stakes[a].owner # h )
             => /\ last'.result # "Ok"
                /\ UnstakeAccountsResolve(h, a, last'.args[1]) => last'.result = "Unauthorized"
                /\ NothingMutated
                /\ registry'[a].frozen /\ registry'[a].delegate = "ledger"
          /\ (stakes[a].exists /\ ~stakes'[a].exists)
             => Submitted("unstake", stakes[a].owner, a) /\ last'.result = "Ok"
      ]_vars

\* An outsider with a HolderAccount was refused a matured stake.
C1_Witness ==
    /\ last.op = "unstake" /\ last.result = "Unauthorized"
    /\ stakes[last.asset].exists /\ stakes[last.asset].owner # last.user
    /\ Matured(last.asset)
    /\ registry[last.asset].frozen

\* ------------------------------------------------------------------------ C2

\* C2: while now - lastUpdate < freezePeriodSeconds, an unstake of the asset
\* by anyone is rejected, with UnstakeDelayNotMet whenever its accounts
\* resolve, and nothing is mutated: the record, amountStaked, points and the
\* frozen and delegated asset are as before.
C2_FreezePeriodEnforced ==
    [][ \A h \in Holders, a \in Assets :
          ( Submitted("unstake", h, a) /\ stakes[a].exists /\ ~Matured(a) )
          => /\ last'.result # "Ok"
             /\ UnstakeAccountsResolve(h, a, last'.args[1]) => last'.result = "UnstakeDelayNotMet"
             /\ NothingMutated
             /\ stakes'[a].exists /\ registry'[a].frozen /\ registry'[a].delegate = "ledger"
      ]_vars

\* The owner was refused one second before the freeze period elapsed.
C2_Witness ==
    /\ last.op = "unstake" /\ last.result = "UnstakeDelayNotMet"
    /\ stakes[last.asset].exists /\ stakes[last.asset].owner = last.user
    /\ Val(Elapsed(last.asset)) = Val(config.freeze_period) - 1

\* ------------------------------------------------------------------------ C3

\* floor((now - lastUpdate) / 86400) of the record of a, as an exact number.
ExactDays(a) == DivRem(Elapsed(a), SECONDS_PER_DAY).q

\* C3: a successful unstake of a by h decreases amountStaked of h by exactly 1,
\* increases points of h by exactly floor((now - lastUpdate)/86400) *
\* pointsPerStake, and destroys the StakeRecord of a.
C3_UnstakeEffects ==
    [][ \A h \in Holders, a \in Assets :
          ( Submitted("unstake", h, a) /\ last'.result = "Ok" )
          => /\ users'[h].amount_staked = users[h].amount_staked - 1
             /\ Wide(users'[h].points)
                  = WideAdd(users[h].points, WideMul(ExactDays(a), config.points_per_stake))
             /\ ~stakes'[a].exists
      ]_vars

\* ------------------------------------------------------------------------ C4

\* C4: a successful unstake at lastUpdate + k*86400 + r, with 0 <= r < 86400
\* and k >= ceil(freezePeriodSeconds/86400), credits exactly k * pointsPerStake,
\* whatever r is.
C4_RewardDeterminism ==
    [][ \A h \in Holders, a \in Assets :
          LET d == DivRem(Elapsed(a), SECONDS_PER_DAY)
              credited == Low(SubBorrow(Wide(users'[h].points), Wide(users[h].points), 0), 12)
          IN  ( /\ Submitted("unstake", h, a) /\ last'.result = "Ok"
                /\ 0 <= d.r /\ d.r < SECONDS_PER_DAY
                /\ Ge(WideMul(d.q, SECONDS_PER_DAY), Wide(config.freeze_period)) )
              => credited = WideMul(d.q, config.points_per_stake)
      ]_vars

\* ------------------------------------------------------------------------ C5

\* The value w does not fit 32 bits.
ExceedsU32(w) == \E i \in 1..Len(w) : i > U32 /\ w[i] # 0

\* One of the steps of the reward computation of an unstake of a by h leaves
\* 32 bits: the day count, its product with pointsPerStake, or the new points.
WouldExceed(h, a) ==
    \/ ExceedsU32(ExactDays(a))
    \/ ExceedsU32(WideMul(ExactDays(a), config.points_per_stake))
    \/ ExceedsU32(WideAdd(users[h].points, WideMul(ExactDays(a), config.points_per_stake)))

\* C5: when a step of the reward computation would exceed its field's width,
\* the unstake (past its checks and the custody handshake) fails with
\* ArithmeticOverflow and mutates no record.
C5_OverflowChecked ==
    [][ \A h \in Holders, a \in Assets :
          ( /\ Submitted("unstake", h, a)
            /\ stakes[a].exists /\ users[h].exists /\ stakes[a].owner = h /\ Matured(a)
            /\ last'.result \notin {"ThawFailed", "RevokeFailed"}
            /\ WouldExceed(h, a) )
          => last'.result = "ArithmeticOverflow" /\ NothingMutated
      ]_vars

\* ------------------------------------------------------------------------ C6

\* C6: configure on a ledger without configuration fails with
\* InvalidConfiguration whenever one of its three arguments is 0, and then
\* neither the GlobalConfiguration nor the reward mint exists; it succeeds
\* exactly when all three are strictly positive, and stores the given values.
C6_ConfigureValidates ==
    [][ ( last'.op = "configure" /\ ~config.exists /\ ~rewardsMint )
        => LET p == last'.args[1]
               m == last'.args[2]
               f == last'.args[3]
           IN  /\ (p = 0 \/ m = 0 \/ f = 0)
                  => /\ last'.result = "InvalidConfiguration"
                     /\ ~config'.exists /\ ~rewardsMint'
               /\ (p > 0 /\ m > 0 /\ f > 0)
                  => /\ last'.result = "Ok"
                     /\ config'.exists /\ rewardsMint'
                     /\ config'.points_per_stake = p
                     /\ config'.max_stake = m
                     /\ Val(config'.freeze_period) = f
      ]_vars

\* A configure with a zero argument was refused and left nothing behind.
C6_Witness ==
    /\ last.op = "configure" /\ last.result = "InvalidConfiguration"
    /\ last.args[3] = 0 /\ last.args[1] > 0 /\ last.args[2] > 0
    /\ ~config.exists /\ ~rewardsMint

\* ------------------------------------------------------------------------ C7

\* C7: once a GlobalConfiguration exists every configure fails, no transaction
\* changes its pointsPerStake, maxStake or freezePeriodSeconds, and they are
\* all > 0.
C7_ConfigurationImmutable ==
    [][ /\ config.exists
           => /\ config' = config /\ rewardsMint' = rewardsMint
              /\ last'.op = "configure" => last'.result = "AccountAlreadyInUse"
        /\ config'.exists
           => /\ config'.points_per_stake > 0 /\ config'.max_stake > 0
              /\ config'.freeze_period # Zeros(U32)
              /\ rewardsMint'
      ]_vars

\* A second configure was refused while stakes were being made.
C7_Witness ==
    /\ last.op = "configure" /\ last.result = "AccountAlreadyInUse"
    /\ config.exists
    /\ \E a \in Assets : stakes[a].exists

\* ------------------------------------------------------------------------ C8

\* C8: for every holder h, 0 <= amountStaked(h) <= maxStake.
C8_AmountStakedInRange ==
    \A h \in Holders :
        users[h].amount_staked >= 0 /\ users[h].amount_staked <= config.max_stake

\* An unstake took a holder's count down from the ceiling.
C8_Witness ==
    /\ last.op = "unstake" /\ last.result = "Ok"
    /\ users[last.user].amount_staked = config.max_stake - 1

\* ------------------------------------------------------------------------ C9

\* C9: while amountStaked(h) = maxStake, a stake by h fails, with
\* MaxStakeReached when the asset is free and the registry vouches for it,
\* and changes nothing: no StakeRecord is created and the asset is not left
\* frozen or delegated.
C9_MaxStakeCeiling ==
    [][ \A h \in Holders, a \in Assets :
          ( /\ Submitted("stake", h, a)
            /\ config.exists /\ users[h].amount_staked = config.max_stake )
          => /\ last'.result # "Ok"
             /\ last'.args[1] = "Ok" => last'.result = "MaxStakeReached"
             /\ NothingMutated
      ]_vars

\* A holder at the ceiling was refused a free asset, which stays unfrozen.
C9_Witness ==
    /\ last.op = "stake" /\ last.result = "MaxStakeReached"
    /\ users[last.user].amount_staked = config.max_stake
    /\ ~stakes[last.asset].exists
    /\ ~registry[last.asset].frozen /\ registry[last.asset].delegate = "none"

\* ----------------------------------------------------------------------- C10

\* C10: a successful stake of a by h creates the StakeRecord of a with
\* owner = h and lastUpdate = now and increases amountStaked(h) by exactly 1;
\* while that record exists every stake of a, by anyone, fails and leaves the
\* record as it is.
C10_StakeCreatesOneRecord ==
    [][ \A h \in Holders, a \in Assets :
          Submitted("stake", h, a)
          => /\ last'.result = "Ok"
                => /\ ~stakes[a].exists
                   /\ stakes'[a] = [exists |-> TRUE, owner |-> h, last_update |-> now]
                   /\ users'[h].amount_staked = users[h].amount_staked + 1
             /\ stakes[a].exists
                => last'.result # "Ok" /\ NothingMutated
      ]_vars

\* A stake of an asset that is already staked was refused.
C10_Witness ==
    /\ last.op = "stake" /\ last.result = "AccountAlreadyInUse"
    /\ stakes[last.asset].exists /\ stakes[last.asset].owner = "h1"
    /\ users["h1"].amount_staked >= 1

\* ----------------------------------------------------------------------- C11

\* C11: a claim by a holder whose HolderAccount has points = 0 fails with
\* NoPointsToClaim and changes nothing; a claim with points = N > 0 either
\* succeeds, leaving points = 0 and the reward balance increased by exactly N,
\* or fails and leaves both as they were; and in no step does the balance of a
\* holder change without that holder's points being debited by a claim.
C11_ClaimAtomic ==
    [][ \A h \in Holders :
          /\ ( Submitted("claim", h, "none") /\ config.exists /\ users[h].exists )
             => IF users[h].points = Zeros(U32)
                THEN last'.result = "NoPointsToClaim" /\ NothingMutated
                ELSE \/ /\ last'.result = "Ok"
                        /\ users'[h].points = Zeros(U32)
                        /\ Wide(balance'[h]) = WideAdd(balance[h], users[h].points)
                        /\ users'[h].amount_staked = users[h].amount_staked
                        /\ \A g \in Holders \ {h} : users'[g] = users[g] /\ balance'[g] = balance[g]
                        /\ UNCHANGED <<config, rewardsMint, stakes, registry>>
                     \/ /\ last'.result # "Ok"
                        /\ NothingMutated
          /\ balance'[h] # balance[h]
             => /\ Submitted("claim", h, "none") /\ last'.result = "Ok"
                /\ users[h].points # Zeros(U32) /\ users'[h].points = Zeros(U32)
      ]_vars

\* A claim turned a holder's points into reward balance.
C11_Witness ==
    /\ last.op = "claim" /\ last.result = "Ok"
    /\ users[last.user].points = Zeros(U32)
    /\ balance[last.user] = ToBytes(10, I64)

\* ----------------------------------------------------------------------- C12

\* The request names an existing stake record and the requester's accounts
\* resolve, so that the handler's own checks decide the result.
ReachesHandler(h, a) ==
    /\ Submitted("unstake", h, a)
    /\ config.exists /\ stakes[a].exists /\ users[h].exists /\ last'.args[1]

\* C12 (as stated): an unstake that violates both preconditions, requested by
\* somebody other than the staker before the holding period has elapsed, fails
\* with Unauthorized and not with UnstakeDelayNotMet.
C12_OwnerCheckedFirst ==
    [][ \A h \in Holders, a \in Assets :
          ( ReachesHandler(h, a) /\ stakes[a].owner # h /\ ~Matured(a) )
          => last'.result = "Unauthorized"
      ]_vars

\* C12 (amended): the holding period is checked first and ownership second: an
\* unstake that violates both fails with UnstakeDelayNotMet; Unauthorized is
\* the result exactly when the holding period has elapsed and the requester is
\* not the staker; in both cases nothing is changed.
C12_FreezeCheckedFirst ==
    [][ \A h \in Holders, a \in Assets :
          ReachesHandler(h, a)
          => /\ ( stakes[a].owner # h /\ ~Matured(a) )
                => last'.result = "UnstakeDelayNotMet" /\ NothingMutated
             /\ last'.result = "Unauthorized" <=> ( Matured(a) /\ stakes[a].owner # h )
             /\ last'.result = "Unauthorized" => NothingMutated
      ]_vars

\* Somebody other than the staker asked for the asset before the holding
\* period had elapsed and was answered UnstakeDelayNotMet.
C12_Witness ==
    /\ last.op = "unstake" /\ last.result = "UnstakeDelayNotMet"
    /\ last.asset \in Assets /\ stakes[last.asset].exists
    /\ stakes[last.asset].owner # last.user
    /\ users[last.user].exists /\ last.args[1]
    /\ ~Matured(last.asset)

\* ----------------------------------------------------------------------- C13

\* C13: within unstake the precondition checks come before the thaw, the thaw
\* before the revoke, and the revoke before the account update and the record's
\* destruction: the registry is asked nothing when a precondition fails and is
\* not asked to revoke when the thaw fails; when the thaw or the revoke fails
\* nothing is changed, the asset stays frozen and delegated and its record
\* stays; and whatever an unstake changes, it changes after both succeeded.
C13_UnstakeOrder ==
    [][ \A h \in Holders, a \in Assets :
          Submitted("unstake", h, a)
          => LET calls == last'.args[2]
                 res == last'.result
             IN /\ calls \in {<< >>, <<"thaw">>, <<"thaw", "revoke">>}
                /\ ~( ReachesHandler(h, a) /\ Matured(a) /\ stakes[a].owner = h )
                   => calls = << >> /\ NothingMutated
                /\ res \in {"AccountNotInitialized", "UnstakeDelayNotMet", "Unauthorized"}
                   => calls = << >>
                /\ res = "ThawFailed" => calls = <<"thaw">>
                /\ res = "RevokeFailed" => calls = <<"thaw", "revoke">>
                /\ res \in {"ThawFailed", "RevokeFailed"}
                   => /\ NothingMutated
                      /\ stakes'[a].exists
                      /\ registry'[a].frozen /\ registry'[a].delegate = "ledger"
                /\ ~NothingMutated => res = "Ok" /\ calls = <<"thaw", "revoke">>
      ]_vars

\* The registry thawed the asset and then refused to revoke: the asset is
\* still frozen and delegated and its record is still there.
C13_Witness ==
    /\ last.op = "unstake" /\ last.result = "RevokeFailed"
    /\ last.args[2] = <<"thaw", "revoke">>
    /\ stakes[last.asset].exists
    /\ registry[last.asset].frozen /\ registry[last.asset].delegate = "ledger"

\* ----------------------------------------------------------------------- C14

\* C14: after every step, an asset is frozen and delegated to the ledger if
\* and only if its StakeRecord exists, and an asset without a record is thawed
\* and has no delegate, as it is right after a successful unstake; and in no
\* step does an asset whose StakeRecord exists change hands: its holder's
\* request to move it is refused.
C14_Custody ==
    [][ \A a \in Assets :
          /\ ( registry'[a].frozen /\ registry'[a].delegate = "ledger" ) <=> stakes'[a].exists
          /\ ~stakes'[a].exists => ~registry'[a].frozen /\ registry'[a].delegate = "none"
          /\ \A h \in Holders :
               ( Submitted("unstake", h, a) /\ last'.result = "Ok" )
               => ~registry'[a].frozen /\ registry'[a].delegate = "none" /\ ~stakes'[a].exists
          /\ stakes[a].exists
             => /\ registry'[a].holder = registry[a].holder
                /\ \A h \in Holders : Submitted("transfer", h, a) => last'.result # "Ok"
      ]_vars

\* The second holder received an asset, staked it, and was then refused when
\* asking to move it, the first holder having unstaked the other asset.
C14_Witness ==
    /\ last.op = "transfer" /\ last.result = "AccountFrozen" /\ last.user = "h2"
    /\ stakes[last.asset].exists /\ stakes[last.asset].owner = "h2"
    /\ registry[last.asset].frozen /\ registry[last.asset].delegate = "ledger"
    /\ \E b \in Assets \ {last.asset} :
         ~stakes[b].exists /\ ~registry[b].frozen /\ users["h1"].points # Zeros(U32)

\* ----------------------------------------------------------------------- C15

\* C15: of two unstake requests for the same asset, taken in either order with
\* no stake between them, at most one succeeds: a successful unstake consumes
\* the asset's StakeRecord, decrementing amountStaked by one and crediting the
\* reward in that step only, and an unstake of an asset that has no
\* StakeRecord is rejected and changes nothing.
C15_UnstakeOnce ==
    [][ \A h \in Holders, a \in Assets :
          Submitted("unstake", h, a)
          => /\ last'.result = "Ok"
                => /\ stakes[a].exists /\ ~stakes'[a].exists
                   /\ users[h].amount_staked >= 1
                   /\ users'[h].amount_staked = users[h].amount_staked - 1
             /\ ~stakes[a].exists
                => last'.result = "AccountNotInitialized" /\ NothingMutated
             /\ last'.result # "Ok" => NothingMutated
      ]_vars

\* The asset's unstake was rewarded (the other asset has been staked since the
\* clock's first reading, so the points are this asset's), and a further
\* unstake of it by its holder has just been rejected.
C15_Witness ==
    /\ last.op = "unstake" /\ last.result = "AccountNotInitialized"
    /\ config.exists /\ users[last.user].exists /\ last.args[1]
    /\ registry[last.asset].holder = last.user
    /\ ~stakes[last.asset].exists
    /\ users[last.user].points # Zeros(U32)
    /\ users[last.user].amount_staked = 1
    /\ \E b \in Assets \ {last.asset} :
         stakes[b].exists /\ stakes[b].owner = last.user /\ stakes[b].last_update = Instants[1]

\* ----------------------------------------------------------------------- C16

\* C16: an unstake of asset a by holder h, whatever its result, leaves the
\* configuration and the reward mint, every other holder's HolderAccount and
\* reward balance, and every other asset's StakeRecord and custody state as
\* they were, and does not change who holds a.
C16_UnstakeFrame ==
    [][ \A h \in Holders, a \in Assets :
          Submitted("unstake", h, a)
          => /\ config' = config /\ rewardsMint' = rewardsMint
             /\ balance' = balance
             /\ \A g \in Holders \ {h} : users'[g] = users[g]
             /\ \A b \in Assets \ {a} : stakes'[b] = stakes[b] /\ registry'[b] = registry[b]
             /\ registry'[a].holder = registry[a].holder
      ]_vars

\* A holder unstaked an asset while the other holder had the other asset
\* staked.
C16_Witness ==
    /\ last.op = "unstake" /\ last.result = "Ok"
    /\ ~stakes[last.asset].exists
    /\ \E g \in Holders \ {last.user}, b \in Assets \ {last.asset} :
         /\ stakes[b].exists /\ stakes[b].owner = g
         /\ registry[b].frozen /\ registry[b].holder = g
         /\ users[g].exists /\ users[g].amount_staked = 1

\* ----------------------------------------------------------------------- C17

\* The assets whose StakeRecord exists and names h as its owner.
StakedBy(h) == {a \in Assets : stakes[a].exists /\ stakes[a].owner = h}

\* C17: in every reachable state, for every holder h, amountStaked of h's
\* HolderAccount equals the number of existing StakeRecords whose owner is h.
C17_AmountStakedCountsRecords ==
    \A h \in Holders : users[h].amount_staked = Cardinality(StakedBy(h))

\* A holder has just unstaked their only staked asset and is back at zero
\* while the other holder's count stands at their one record.
C17_Witness ==
    /\ last.op = "unstake" /\ last.result = "Ok"
    /\ users[last.user].amount_staked = 0 /\ StakedBy(last.user) = {}
    /\ \E g \in Holders \ {last.user} :
         users[g].amount_staked = 1 /\ Cardinality(StakedBy(g)) = 1

\* ----------------------------------------------------------------------- C18

\* The owner h of the matured StakeRecord of a asks for it back and the
\* registry neither refuses the thaw nor the revoke.
OwnerUnstakesMatured(h, a) ==
    /\ Submitted("unstake", h, a)
    /\ config.exists /\ stakes[a].exists /\ stakes[a].owner = h /\ Matured(a)
    /\ last'.result \notin {"ThawFailed", "RevokeFailed"}

PointsAndClaimed(h) == WideAdd(users[h].points, balance[h])

\* The same total after the step.
PointsAndClaimedAfter(h) == WideAdd(users'[h].points, balance'[h])

\* C19: for every holder h, points of h plus everything h has claimed equals
\* the sum, over h's completed stakes, of floor(duration / 86400) *
\* pointsPerStake.  Both sides start at zero, so the equality is kept exactly
\* when every step adds the same to both: a successful unstake by h adds the
\* reward of the stake it completes to h's points and claimed total, and no
\* other step changes that total; and a stake starts accrual at its own time.
C19_PointsConservation ==
    [][ \A h \in Holders :
          /\ \A a \in Assets :
               ( Submitted("unstake", h, a) /\ last'.result = "Ok" )
               => PointsAndClaimedAfter(h)
                    = WideAdd(PointsAndClaimed(h), WideMul(ExactDays(a), config.points_per_stake))
          /\ ~( last'.op = "unstake" /\ last'.user = h /\ last'.result = "Ok" )
             => PointsAndClaimedAfter(h) = PointsAndClaimed(h)
          /\ \A a \in Assets :
               ( Submitted("stake", h, a) /\ last'.result = "Ok" )
               => stakes'[a].last_update = now
      ]_vars

====
